---- MODULE Spec2Model ----
(***************************************************************************)
(* A model of statsd_exporter's UDP relay (pkg/relay/relay.go) and of the  *)
(* life cycle of main (the exporter's entry point).                        *)
(*                                                                         *)
(* A byte string is a sequence of one-character strings.  The relay part   *)
(* has one process per caller of RelayLine (the listeners of main share    *)
(* one Relay) and one process for the flush loop relayOutput.              *)
(***************************************************************************)
EXTENDS Integers, Sequences, FiniteSets, TLC

(***************************************************************************)
(* Bounds of the model.                                                    *)
(***************************************************************************)
\* The number of RelayLine calls of one behaviour.
MaxCalls == 3
\* The largest configured statsd.relay.packet-length (any uint in the code).
MaxPacketLength == 3
\* The capacity of bufferChannel.  The code makes it 100 (relay.go:78); the
\* model keeps the bounded, blocking channel and scales its capacity down.
ChanCap == 1

\* The byte "\n" of strings.HasSuffix(l, "\n").
NL == "\n"
\* The bytes lines are made of: one ordinary byte and the newline.
Bytes == {"a", NL}
\* The lines callers hand to RelayLine: every byte string of at most two bytes
\* (empty, with and without a final newline, with a newline inside).
Lines == UNION {[1..k -> Bytes] : k \in 0..2}
\* The goroutines that call RelayLine: main hands the same Relay to the UDP,
\* the TCP and the Unixgram listener; two of them are enough to interleave.
Callers == {"udp", "tcp"}

\* Go's uint is 32 or 64 bits wide.  TLC's integers are 32 bits wide and
\* signed, so the model wraps uint arithmetic at 2^30: like the real modulus
\* it lies above every length the model can form.
UintModulus == 2^30

VARIABLES
    packetLength,       \* Relay.packetLength
    bufferChannel,      \* Relay.bufferChannel: the chunks in the channel, oldest first
    buffer,             \* relayOutput's local bytes.Buffer
    loop,               \* relayOutput's position: "running" or "exited"
    packetsTotal,       \* statsd_exporter_relay_packets_total
    longLinesTotal,     \* statsd_exporter_relay_long_lines_total
    relayedLinesTotal,  \* statsd_exporter_relay_lines_relayed_total
    pc,                 \* per caller: "idle", or "sending" (at r.bufferChannel <- ...)
    pending,            \* per caller: the chunk it is about to put on the channel
    sent,               \* history: the datagrams the target received, in order
    calls,              \* history: the number of RelayLine calls made
    nonEmptyCalls,      \* history: the number of those calls with a non-empty line
    relayedBy,          \* history: per caller, the lines it had accepted, in call order
    accepted            \* history: every chunk put on the channel, [by, line, chunk]

relayVars == <<packetLength, bufferChannel, buffer, loop, packetsTotal, longLinesTotal,
               relayedLinesTotal, pc, pending, sent, calls, nonEmptyCalls, relayedBy,
               accepted>>

VARIABLES
    cfg,                \* main's flags, as parsed by kingpin
    mainPc,             \* main's position
    deferred,           \* main's deferred calls, in the order they were registered
    exit,               \* the process: "none" while it runs, else how it ended
    exitCause,          \* what ended the process
    sock,               \* per listener: its socket, "none", "open" or "closed"
    listening,          \* per listener: its Listen goroutine was started
    events,             \* the batches in the events channel, oldest first
    eventsClosed,       \* close(events) was executed
    closeCount,         \* history: the number of times close(events) was executed
    enqueued,           \* history: the number of batches listeners put on events
    sendAfterClose,     \* history: a listener sent on events after its close
    exporterUp,         \* go exporter.Listen(events) was started
    consumed,           \* history: the batches exporter.Listen took from events
    httpUp,             \* go serveHTTP(...) was started
    relayUp,            \* relay.NewRelay returned a Relay
    quitChan            \* the number of messages in quitChan (capacity 1)

VARIABLES
    configLoads,        \* statsd_exporter_config_reloads_total, per outcome
    mapperLoads,        \* history: the calls of mapper.InitFromFile made by reloadConfig
    reloadTriggers,     \* history: the SIGHUPs and the PUT/POST reload requests handled
    httpRequests,       \* history: the HTTP requests served
    refused,            \* history: those for a lifecycle path that no handler acted on
    stopBy              \* what ended main's select: "none", "signal" or "quit"

lifecycleVars == <<configLoads, mapperLoads, reloadTriggers, httpRequests, refused,
                   stopBy>>

VARIABLES
    cacheSize,          \* getCache's argument cacheSize
    cacheType,          \* getCache's argument cacheType
    ctor,               \* what the cache constructor returns when it is called
    cacheRet            \* what getCache returned: <<>> before the call, then <<result>>

cacheVars == <<cacheSize, cacheType, ctor, cacheRet>>

mainVars == <<cfg, mainPc, deferred, exit, exitCause, sock, listening, events,
              eventsClosed, closeCount, enqueued, sendAfterClose, exporterUp,
              consumed, httpUp, relayUp, quitChan, lifecycleVars, cacheVars>>

vars == <<relayVars, mainVars>>

(***************************************************************************)
(* Helpers on byte strings.                                                *)
(***************************************************************************)
\* The concatenation of a sequence of byte strings.
RECURSIVE Flatten(_)
Flatten(ss) == IF ss = <<>> THEN <<>> ELSE Head(ss) \o Flatten(Tail(ss))

\* p is a prefix of s.
IsPrefix(p, s) == Len(p) <= Len(s) /\ SubSeq(s, 1, Len(p)) = p

\* The field f of every record of a sequence.
Field(recs, f) == [i \in 1..Len(recs) |-> recs[i][f]]

(***************************************************************************)
(* pkg/relay/relay.go                                                      *)
(***************************************************************************)
\* a - b in Go's uint: the result wraps around below zero.
UintSub(a, b) == (a - b) % UintModulus

\* strings.HasSuffix(l, "\n")
HasSuffixNL(l) == Len(l) > 0 /\ l[Len(l)] = NL

\* A changed WithNewline: no newline is ever added.
NeverAppendNewline(l) == l
\* A changed WithNewline: the newline is added to every line.
AlwaysAppendNewline(l) == l \o <<NL>>
\* RelayLine, lines 160-162: the line with a newline added unless it ends in one.
WithNewline(l) == IF ~HasSuffixNL(l) THEN l \o <<NL>> ELSE l

\* RelayLine, lines 149-164: which of its three returns a call of line l takes.
RelayLineOutcome(l) ==
    LET lineLength == Len(l) IN
    IF lineLength = 0 THEN "empty"
    ELSE IF lineLength > UintSub(packetLength, 1) THEN "long"
    ELSE "relayed"

\* A changed sendPacket: the check for an empty buffer is missing.
SendPacketKeepsEmpty(buf, ok) ==
    [wrote |-> IF ok THEN <<buf>> ELSE <<>>, err |-> ~ok, inc |-> 1]
\* sendPacket(buf), where ok says whether conn.WriteToUDP succeeds: the datagrams
\* that reach the target, the error returned and the increment of packetsTotal.
sendPacket(buf, ok) ==
    IF Len(buf) = 0
    THEN [wrote |-> <<>>, err |-> FALSE, inc |-> 0]
    ELSE [wrote |-> IF ok THEN <<buf>> ELSE <<>>, err |-> ~ok, inc |-> 1]

\* A changed AfterSend: the error is logged and the loop goes on.
NeverReturn(err) == "running"
\* relayOutput, lines 110-113 and 120-123: a send error ends the loop.
AfterSend(err) == IF err THEN "exited" ELSE "running"

\* A changed BufferFull: a chunk that fills the buffer exactly counts as too much.
BufferFullAtLimit(b, buf) == Len(b) + Len(buf) >= packetLength
\* relayOutput, line 117: the chunk does not fit into the buffer any more.
BufferFull(b, buf) == Len(b) + Len(buf) > packetLength

\* A changed SeedBuffer: buffer.Reset() is missing.
AppendWithoutReset(buf, b) == buf \o b
\* relayOutput, lines 125-126: buffer.Reset() and buffer.Write(b).
SeedBuffer(buf, b) == b

\* The Relay as NewRelay returns it, for a configured packet length.
RelayInit ==
    /\ packetLength \in 0..MaxPacketLength
    /\ bufferChannel = <<>>
    /\ buffer = <<>>
    /\ loop = "running"
    /\ packetsTotal = 0
    /\ longLinesTotal = 0
    /\ relayedLinesTotal = 0
    /\ pc = [c \in Callers |-> "idle"]
    /\ pending = [c \in Callers |-> <<>>]
    /\ sent = <<>>
    /\ calls = 0
    /\ nonEmptyCalls = 0
    /\ relayedBy = [c \in Callers |-> <<>>]
    /\ accepted = <<>>

\* RelayLine(l) called by c, up to the channel send of line 164.
RelayLine(c, l) ==
    /\ pc[c] = "idle"
    /\ calls < MaxCalls
    /\ calls' = calls + 1
    /\ nonEmptyCalls' = nonEmptyCalls + (IF Len(l) > 0 THEN 1 ELSE 0)
    /\ LET outcome == RelayLineOutcome(l) IN
       /\ longLinesTotal' = longLinesTotal + (IF outcome = "long" THEN 1 ELSE 0)
       /\ relayedLinesTotal' = relayedLinesTotal + (IF outcome = "relayed" THEN 1 ELSE 0)
       /\ IF outcome = "relayed"
          THEN /\ pc' = [pc EXCEPT ![c] = "sending"]
               /\ pending' = [pending EXCEPT ![c] = [line |-> l, chunk |-> WithNewline(l)]]
               /\ relayedBy' = [relayedBy EXCEPT ![c] = Append(@, l)]
          ELSE UNCHANGED <<pc, pending, relayedBy>>
    /\ UNCHANGED <<packetLength, bufferChannel, buffer, loop, packetsTotal, sent, accepted>>
    /\ UNCHANGED mainVars

\* A send on the buffered channel: the chunk joins the queue at its end.
ChanPut(ch, b) == Append(ch, b)

\* RelayLine, line 164: r.bufferChannel <- []byte(l); it blocks while the
\* channel is full, and RelayLine returns after it.
RelayLineSend(c) ==
    /\ pc[c] = "sending"
    /\ Len(bufferChannel) < ChanCap
    /\ bufferChannel' = ChanPut(bufferChannel, pending[c].chunk)
    /\ accepted' = Append(accepted, [by |-> c, line |-> pending[c].line,
                                     chunk |-> pending[c].chunk])
    /\ pc' = [pc EXCEPT ![c] = "idle"]
    /\ pending' = [pending EXCEPT ![c] = <<>>]
    /\ UNCHANGED <<packetLength, buffer, loop, packetsTotal, longLinesTotal,
                   relayedLinesTotal, sent, calls, nonEmptyCalls, relayedBy>>
    /\ UNCHANGED mainVars

\* A changed RelayTick: the loop has no ticker case, a tick does nothing.
TickerNeverFires == loop = "running" /\ UNCHANGED vars
\* relayOutput, lines 108-115: the ticker fires.
RelayTick ==
    /\ loop = "running"
    /\ \E ok \in BOOLEAN :
         LET r == sendPacket(buffer, ok) IN
         /\ sent' = sent \o r.wrote
         /\ packetsTotal' = packetsTotal + r.inc
         /\ loop' = AfterSend(r.err)
         /\ buffer' = IF loop' = "exited" THEN buffer ELSE <<>>
    /\ UNCHANGED <<packetLength, bufferChannel, longLinesTotal, relayedLinesTotal,
                   pc, pending, calls, nonEmptyCalls, relayedBy, accepted>>
    /\ UNCHANGED mainVars

\* relayOutput, lines 116-130: a chunk arrives on the channel.
RelayRecv ==
    /\ loop = "running"
    /\ bufferChannel # <<>>
    /\ LET b == Head(bufferChannel) IN
       /\ bufferChannel' = Tail(bufferChannel)
       /\ IF BufferFull(b, buffer)
          THEN \E ok \in BOOLEAN :
                 LET r == sendPacket(buffer, ok) IN
                 /\ sent' = sent \o r.wrote
                 /\ packetsTotal' = packetsTotal + r.inc
                 /\ loop' = AfterSend(r.err)
                 /\ buffer' = IF loop' = "exited" THEN buffer ELSE SeedBuffer(buffer, b)
          ELSE /\ buffer' = buffer \o b
               /\ UNCHANGED <<sent, packetsTotal, loop>>
    /\ UNCHANGED <<packetLength, longLinesTotal, relayedLinesTotal, pc, pending,
                   calls, nonEmptyCalls, relayedBy, accepted>>
    /\ UNCHANGED mainVars

(***************************************************************************)
(* main (the exporter's entry point)                                       *)
(***************************************************************************)
\* The number of batches the listeners enqueue in one behaviour.
MaxBatches == 2
\* The configured statsd.event-queue-size: the capacity of the events channel.
EventQueueSize == 2

\* The number of reload triggers (SIGHUP, reload request) in one behaviour.
MaxReloads == 2
\* The number of HTTP requests served in one behaviour.
MaxRequests == 1
\* The largest statsd.cache-size given to getCache.
MaxCacheSize == 2

\* The StatsD listeners main can start.
Listeners == {"udp", "tcp", "unixgram"}

\* The flags of main that decide its control flow: a listener is on when its
\* listen address is not "", readBuffer when statsd.read-buffer is not 0,
\* mappingConfig and relay when the file name or address is not "", landing
\* when web.telemetry-path is neither "/" nor "".
Configs ==
    [udp : BOOLEAN, tcp : BOOLEAN, unixgram : BOOLEAN, readBuffer : BOOLEAN,
     mappingConfig : BOOLEAN, checkConfig : BOOLEAN, relay : BOOLEAN,
     lifecycle : BOOLEAN, landing : BOOLEAN]

\* No reload was triggered and no request served.
LifecycleIdle ==
    /\ configLoads = [success |-> 0, failure |-> 0]
    /\ mapperLoads = 0
    /\ reloadTriggers = 0
    /\ httpRequests = 0
    /\ refused = 0
    /\ stopBy = "none"

\* The values of statsd.cache-size: an int, 0 for no cache.
CacheSizes == -1..MaxCacheSize
\* The cache types: the two getCache knows, and two it does not.
CacheTypes == {"lru", "random", "fifo", ""}
\* What a cache constructor can return: whether the cache value is not nil,
\* and whether the error is not nil.
CtorResults == [cache : BOOLEAN, err : BOOLEAN]
\* The nil cache and the nil error.
Nil == "nil"

\* A changed getCache: the cache type is looked at before the size.
GetCacheTypeFirst(size, type, made) ==
    IF type \notin {"lru", "random"}
    THEN [cache |-> Nil, err |-> "unsupported cache type"]
    ELSE IF size = 0 \/ made.err
    THEN [cache |-> Nil, err |-> IF size = 0 THEN Nil ELSE "constructor"]
    ELSE [cache |-> IF made.cache THEN type ELSE Nil, err |-> Nil]
\* getCache, lines 222-243; made is what the constructor called at line 230
\* or 232 returns.  The result is the pair (cache, err): the cache is Nil or
\* named by its type.
getCache(size, type, made) ==
    IF size = 0
    THEN [cache |-> Nil, err |-> Nil]
    ELSE LET got ==
                 IF type \in {"lru", "random"}
                 THEN [cache |-> IF made.cache THEN type ELSE Nil,
                       err |-> IF made.err THEN "constructor" ELSE Nil]
                 ELSE [cache |-> Nil, err |-> "unsupported cache type"]
         IN IF got.err # Nil
            THEN [cache |-> Nil, err |-> got.err]
            ELSE [cache |-> got.cache, err |-> Nil]

\* getCache is not being examined on its own.
CacheIdle ==
    /\ cacheSize = 0
    /\ cacheType = "lru"
    /\ ctor = [cache |-> TRUE, err |-> FALSE]
    /\ cacheRet = <<>>

\* main has not been entered: the state of main's variables in the
\* specifications of the relay alone.
MainIdle ==
    /\ cfg = [udp |-> FALSE, tcp |-> FALSE, unixgram |-> FALSE, readBuffer |-> FALSE,
              mappingConfig |-> FALSE, checkConfig |-> FALSE, relay |-> FALSE,
              lifecycle |-> FALSE, landing |-> FALSE]
    /\ mainPc = "off"
    /\ deferred = <<>>
    /\ exit = "none"
    /\ exitCause = "none"
    /\ sock = [k \in Listeners |-> "none"]
    /\ listening = [k \in Listeners |-> FALSE]
    /\ events = <<>>
    /\ eventsClosed = FALSE
    /\ closeCount = 0
    /\ enqueued = 0
    /\ sendAfterClose = FALSE
    /\ exporterUp = FALSE
    /\ consumed = <<>>
    /\ httpUp = FALSE
    /\ relayUp = FALSE
    /\ quitChan = 0
    /\ LifecycleIdle
    /\ CacheIdle

Init == RelayInit /\ MainIdle

\* main, lines 299-301: the events channel is made and its close deferred.
MainInit ==
    /\ RelayInit
    /\ packetLength = MaxPacketLength
    /\ cfg \in Configs
    /\ mainPc = "cache"
    /\ deferred = <<"close events">>
    /\ exit = "none"
    /\ exitCause = "none"
    /\ sock = [k \in Listeners |-> "none"]
    /\ listening = [k \in Listeners |-> FALSE]
    /\ events = <<>>
    /\ eventsClosed = FALSE
    /\ closeCount = 0
    /\ enqueued = 0
    /\ sendAfterClose = FALSE
    /\ exporterUp = FALSE
    /\ consumed = <<>>
    /\ httpUp = FALSE
    /\ relayUp = FALSE
    /\ quitChan = 0
    /\ LifecycleIdle
    /\ CacheIdle

\* os.Exit(1): the process ends at once, no deferred call runs.
OsExit(cause) ==
    /\ exit' = "failure"
    /\ exitCause' = cause
    /\ mainPc' = "exited"

\* main at position at: it either fails with one of the causes (an error the
\* environment may produce there) or goes on to position to.
FailOrGo(causes, to) ==
    \/ \E cause \in causes : OsExit(cause)
    \/ mainPc' = to /\ UNCHANGED <<exit, exitCause>>

\* main, lines 303-310: the mapper cache is set up; statsd.cache-type is one
\* of "lru" and "random" (line 258).
MainGetCache ==
    /\ mainPc = "cache" /\ exit = "none"
    /\ \E size \in CacheSizes, type \in {"lru", "random"}, made \in CtorResults :
          IF getCache(size, type, made).err # Nil
          THEN OsExit("cache")
          ELSE mainPc' = "config" /\ UNCHANGED <<exit, exitCause>>
    /\ UNCHANGED <<cfg, deferred, sock, listening, events, eventsClosed, closeCount,
                   enqueued, sendAfterClose, exporterUp, consumed, httpUp, relayUp,
                   quitChan>>
    /\ UNCHANGED <<relayVars, lifecycleVars, cacheVars>>

\* main, lines 312-327: the mapping configuration is loaded (a failure to dump
\* the FSM is logged only).
MainLoadConfig ==
    /\ mainPc = "config" /\ exit = "none"
    /\ FailOrGo(IF cfg.mappingConfig THEN {"mapping config"} ELSE {}, "check")
    /\ UNCHANGED <<cfg, deferred, sock, listening, events, eventsClosed, closeCount,
                   enqueued, sendAfterClose, exporterUp, consumed, httpUp, relayUp,
                   quitChan>>
    /\ UNCHANGED <<relayVars, lifecycleVars, cacheVars>>

\* A changed MainCheckConfig: the check-config flag is not looked at.
CheckConfigIgnored ==
    /\ mainPc = "check" /\ exit = "none"
    /\ mainPc' = "relay"
    /\ UNCHANGED <<cfg, deferred, exit, exitCause, sock, listening, events, eventsClosed,
                   closeCount, enqueued, sendAfterClose, exporterUp, consumed, httpUp,
                   relayUp, quitChan>>
    /\ UNCHANGED <<relayVars, lifecycleVars, cacheVars>>
\* main, lines 329-334: with check-config, main returns here.
MainCheckConfig ==
    /\ mainPc = "check" /\ exit = "none"
    /\ mainPc' = IF cfg.checkConfig THEN "return" ELSE "relay"
    /\ UNCHANGED <<cfg, deferred, exit, exitCause, sock, listening, events, eventsClosed,
                   closeCount, enqueued, sendAfterClose, exporterUp, consumed, httpUp,
                   relayUp, quitChan>>
    /\ UNCHANGED <<relayVars, lifecycleVars, cacheVars>>

\* main, lines 336-344: the relay is created when a relay address is given.
MainNewRelay ==
    /\ mainPc = "relay" /\ exit = "none"
    /\ FailOrGo(IF cfg.relay THEN {"relay"} ELSE {}, "listeners")
    /\ relayUp' = (cfg.relay /\ mainPc' = "listeners")
    /\ UNCHANGED <<cfg, deferred, sock, listening, events, eventsClosed, closeCount,
                   enqueued, sendAfterClose, exporterUp, consumed, httpUp, quitChan>>
    /\ UNCHANGED <<relayVars, lifecycleVars, cacheVars>>

\* main, lines 349-352: at least one listener must be configured.
MainNeedListener ==
    /\ mainPc = "listeners" /\ exit = "none"
    /\ IF ~cfg.udp /\ ~cfg.tcp /\ ~cfg.unixgram
       THEN OsExit("no listener")
       ELSE mainPc' = "udp" /\ UNCHANGED <<exit, exitCause>>
    /\ UNCHANGED <<cfg, deferred, sock, listening, events, eventsClosed, closeCount,
                   enqueued, sendAfterClose, exporterUp, consumed, httpUp, relayUp,
                   quitChan>>
    /\ UNCHANGED <<relayVars, lifecycleVars, cacheVars>>

\* The socket of listener k is open and its Listen goroutine started.
Started(k) ==
    /\ sock' = [sock EXCEPT ![k] = "open"]
    /\ listening' = [listening EXCEPT ![k] = TRUE]

\* main, lines 354-394: the UDP listener.  Its socket's Close is not deferred.
MainStartUDP ==
    /\ mainPc = "udp" /\ exit = "none"
    /\ IF cfg.udp
       THEN FailOrGo({"udp address", "udp bind"}
                        \cup (IF cfg.readBuffer THEN {"udp read buffer"} ELSE {}), "tcp")
       ELSE mainPc' = "tcp" /\ UNCHANGED <<exit, exitCause>>
    /\ IF cfg.udp /\ mainPc' = "tcp"
       THEN Started("udp")
       ELSE UNCHANGED <<sock, listening>>
    /\ UNCHANGED <<cfg, deferred, events, eventsClosed, closeCount, enqueued,
                   sendAfterClose, exporterUp, consumed, httpUp, relayUp, quitChan>>
    /\ UNCHANGED <<relayVars, lifecycleVars, cacheVars>>

\* main, lines 396-427: the TCP listener; tconn.Close() is deferred.
MainStartTCP ==
    /\ mainPc = "tcp" /\ exit = "none"
    /\ IF cfg.tcp
       THEN FailOrGo({"tcp address", "tcp bind"}, "unixgram")
       ELSE mainPc' = "unixgram" /\ UNCHANGED <<exit, exitCause>>
    /\ IF cfg.tcp /\ mainPc' = "unixgram"
       THEN Started("tcp") /\ deferred' = Append(deferred, "close tcp")
       ELSE UNCHANGED <<sock, listening, deferred>>
    /\ UNCHANGED <<cfg, events, eventsClosed, closeCount, enqueued, sendAfterClose,
                   exporterUp, consumed, httpUp, relayUp, quitChan>>
    /\ UNCHANGED <<relayVars, lifecycleVars, cacheVars>>

\* main, lines 429-487: the Unixgram listener; uxgconn.Close() is deferred.  (The
\* deferred os.Remove of the socket file and its chmod touch the file system
\* only.)
MainStartUnixgram ==
    /\ mainPc = "unixgram" /\ exit = "none"
    /\ IF cfg.unixgram
       THEN FailOrGo({"unixgram exists", "unixgram bind"}
                        \cup (IF cfg.readBuffer THEN {"unixgram read buffer"} ELSE {}),
                     "landing")
       ELSE mainPc' = "landing" /\ UNCHANGED <<exit, exitCause>>
    /\ IF cfg.unixgram /\ mainPc' = "landing"
       THEN Started("unixgram") /\ deferred' = Append(deferred, "close unixgram")
       ELSE UNCHANGED <<sock, listening, deferred>>
    /\ UNCHANGED <<cfg, events, eventsClosed, closeCount, enqueued, sendAfterClose,
                   exporterUp, consumed, httpUp, relayUp, quitChan>>
    /\ UNCHANGED <<relayVars, lifecycleVars, cacheVars>>

\* main, lines 489-509: the metrics handler and the landing page.
MainLanding ==
    /\ mainPc = "landing" /\ exit = "none"
    /\ FailOrGo(IF cfg.landing THEN {"landing page"} ELSE {}, "serve")
    /\ UNCHANGED <<cfg, deferred, sock, listening, events, eventsClosed, closeCount,
                   enqueued, sendAfterClose, exporterUp, consumed, httpUp, relayUp,
                   quitChan>>
    /\ UNCHANGED <<relayVars, lifecycleVars, cacheVars>>

\* main, lines 511-555: the handlers are registered, and the HTTP server and
\* exporter.Listen(events) are started as goroutines.
MainServe ==
    /\ mainPc = "serve" /\ exit = "none"
    /\ mainPc' = "select"
    /\ httpUp' = TRUE
    /\ exporterUp' = TRUE
    /\ UNCHANGED <<cfg, deferred, exit, exitCause, sock, listening, events, eventsClosed,
                   closeCount, enqueued, sendAfterClose, consumed, relayUp, quitChan>>
    /\ UNCHANGED <<relayVars, lifecycleVars, cacheVars>>

\* main, lines 557-563: main waits for an interrupt or SIGTERM, or for a message
\* on quitChan, and returns.
MainSelect ==
    /\ mainPc = "select" /\ exit = "none"
    /\ \/ stopBy' = "signal" /\ UNCHANGED quitChan
       \/ quitChan > 0 /\ quitChan' = quitChan - 1 /\ stopBy' = "quit"
    /\ mainPc' = "return"
    /\ UNCHANGED <<cfg, deferred, exit, exitCause, sock, listening, events, eventsClosed,
                   closeCount, enqueued, sendAfterClose, exporterUp, consumed, httpUp,
                   relayUp>>
    /\ UNCHANGED <<configLoads, mapperLoads, reloadTriggers, httpRequests, refused>>
    /\ UNCHANGED <<relayVars, cacheVars>>

\* main returns: its deferred calls run, the latest registered first.
MainRunDeferred ==
    /\ mainPc = "return" /\ exit = "none"
    /\ deferred # <<>>
    /\ LET call == deferred[Len(deferred)] IN
       /\ deferred' = SubSeq(deferred, 1, Len(deferred) - 1)
       /\ IF call = "close events"
          THEN /\ eventsClosed' = TRUE
               /\ closeCount' = closeCount + 1
               /\ UNCHANGED sock
          ELSE /\ sock' = [sock EXCEPT ![IF call = "close tcp" THEN "tcp" ELSE "unixgram"]
                                          = "closed"]
               /\ UNCHANGED <<eventsClosed, closeCount>>
    /\ UNCHANGED <<cfg, mainPc, exit, exitCause, listening, events, enqueued,
                   sendAfterClose, exporterUp, consumed, httpUp, relayUp, quitChan>>
    /\ UNCHANGED <<relayVars, lifecycleVars, cacheVars>>

\* main has returned: the process ends, and every goroutine with it.
MainReturn ==
    /\ mainPc = "return" /\ exit = "none"
    /\ deferred = <<>>
    /\ mainPc' = "exited"
    /\ exit' = "success"
    /\ exitCause' = "return"
    /\ UNCHANGED <<cfg, deferred, sock, listening, events, eventsClosed, closeCount,
                   enqueued, sendAfterClose, exporterUp, consumed, httpUp, relayUp,
                   quitChan>>
    /\ UNCHANGED <<relayVars, lifecycleVars, cacheVars>>

\* serveHTTP, lines 176-179: http.ListenAndServe returns an error.
ServeHTTPFails ==
    /\ httpUp /\ exit = "none"
    /\ exit' = "failure"
    /\ exitCause' = "http"
    /\ UNCHANGED <<cfg, mainPc, deferred, sock, listening, events, eventsClosed,
                   closeCount, enqueued, sendAfterClose, exporterUp, consumed, httpUp,
                   relayUp, quitChan>>
    /\ UNCHANGED <<relayVars, lifecycleVars, cacheVars>>

\* A changed reloadConfig: a failed load is not counted.
FailureUncounted(ok) ==
    /\ mapperLoads' = mapperLoads + 1
    /\ configLoads' = IF ok THEN [configLoads EXCEPT !.success = @ + 1] ELSE configLoads
\* reloadConfig, lines 197-206: mapper.InitFromFile is called and its outcome
\* (ok: it returned no error) is counted.
reloadConfig(ok) ==
    /\ mapperLoads' = mapperLoads + 1
    /\ configLoads' = [configLoads EXCEPT
                          ![IF ok THEN "success" ELSE "failure"] = @ + 1]

\* sighupConfigReloader, lines 181-195, receives a SIGHUP; the goroutine is
\* started at line 551 and runs until the process ends.
SighupReload ==
    /\ mainPc \in {"select", "return"} /\ exit = "none"
    /\ reloadTriggers < MaxReloads
    /\ reloadTriggers' = reloadTriggers + 1
    /\ IF cfg.mappingConfig
       THEN \E ok \in BOOLEAN : reloadConfig(ok)
       ELSE UNCHANGED <<configLoads, mapperLoads>>
    /\ UNCHANGED <<cfg, mainPc, deferred, exit, exitCause, sock, listening, events,
                   eventsClosed, closeCount, enqueued, sendAfterClose, exporterUp,
                   consumed, httpUp, relayUp, quitChan, httpRequests, refused,
                   stopBy>>
    /\ UNCHANGED <<relayVars, cacheVars>>

\* A changed HttpReload: the handler does not look at the method.
ReloadOnAnyMethod(method) ==
    /\ httpUp /\ exit = "none"
    /\ cfg.lifecycle
    /\ httpRequests < MaxRequests
    /\ httpRequests' = httpRequests + 1
    /\ reloadTriggers < MaxReloads
    /\ reloadTriggers' = reloadTriggers + 1
    /\ IF cfg.mappingConfig
       THEN \E ok \in BOOLEAN : reloadConfig(ok)
       ELSE UNCHANGED <<configLoads, mapperLoads>>
    /\ UNCHANGED <<cfg, mainPc, deferred, exit, exitCause, sock, listening, events,
                   eventsClosed, closeCount, enqueued, sendAfterClose, exporterUp,
                   consumed, httpUp, relayUp, quitChan, refused, stopBy>>
    /\ UNCHANGED <<relayVars, cacheVars>>
\* The /-/reload handler, lines 514-524, serving a request of the given method.
\* It is registered with web.enable-lifecycle only.
HttpReload(method) ==
    /\ httpUp /\ exit = "none"
    /\ cfg.lifecycle
    /\ httpRequests < MaxRequests
    /\ httpRequests' = httpRequests + 1
    /\ IF method \in {"PUT", "POST"}
       THEN /\ reloadTriggers < MaxReloads
            /\ reloadTriggers' = reloadTriggers + 1
            /\ IF cfg.mappingConfig
               THEN \E ok \in BOOLEAN : reloadConfig(ok)
               ELSE UNCHANGED <<configLoads, mapperLoads>>
            /\ UNCHANGED refused
       ELSE /\ refused' = refused + 1
            /\ UNCHANGED <<reloadTriggers, configLoads, mapperLoads>>
    /\ UNCHANGED <<cfg, mainPc, deferred, exit, exitCause, sock, listening, events,
                   eventsClosed, closeCount, enqueued, sendAfterClose, exporterUp,
                   consumed, httpUp, relayUp, quitChan, stopBy>>
    /\ UNCHANGED <<relayVars, cacheVars>>

\* The /-/quit handler, lines 525-530, serving a request of the given method.
\* It is registered with web.enable-lifecycle only; a handler whose send finds
\* quitChan full waits.
HttpQuit(method) ==
    /\ httpUp /\ exit = "none"
    /\ cfg.lifecycle
    /\ httpRequests < MaxRequests
    /\ httpRequests' = httpRequests + 1
    /\ IF method \in {"PUT", "POST"}
       THEN quitChan < 1 /\ quitChan' = quitChan + 1 /\ UNCHANGED refused
       ELSE refused' = refused + 1 /\ UNCHANGED quitChan
    /\ UNCHANGED <<cfg, mainPc, deferred, exit, exitCause, sock, listening, events,
                   eventsClosed, closeCount, enqueued, sendAfterClose, exporterUp,
                   consumed, httpUp, relayUp>>
    /\ UNCHANGED <<configLoads, mapperLoads, reloadTriggers, stopBy>>
    /\ UNCHANGED <<relayVars, cacheVars>>

\* The paths of the lifecycle handlers.
LifecyclePaths == {"/-/reload", "/-/quit"}
\* The paths requested: the lifecycle paths, a health check, the metrics.
Paths == LifecyclePaths \cup {"/-/healthy", "/metrics"}
\* The request methods.
Methods == {"GET", "PUT", "POST", "DELETE"}

\* A request that no lifecycle handler serves, lines 489-547: one for another
\* path, or for a lifecycle path when the handlers are not registered (the
\* mux then answers with the landing page or 404).
HttpOther(path, method) ==
    /\ httpUp /\ exit = "none"
    /\ path \in LifecyclePaths => ~cfg.lifecycle
    /\ httpRequests < MaxRequests
    /\ httpRequests' = httpRequests + 1
    /\ refused' = refused + (IF path \in LifecyclePaths THEN 1 ELSE 0)
    /\ UNCHANGED <<cfg, mainPc, deferred, exit, exitCause, sock, listening, events,
                   eventsClosed, closeCount, enqueued, sendAfterClose, exporterUp,
                   consumed, httpUp, relayUp, quitChan>>
    /\ UNCHANGED <<configLoads, mapperLoads, reloadTriggers, stopBy>>
    /\ UNCHANGED <<relayVars, cacheVars>>

\* The HTTP server serves one request: the mux picks the handler by the path.
HttpRequest(path, method) ==
    IF cfg.lifecycle /\ path = "/-/reload" THEN HttpReload(method)
    ELSE IF cfg.lifecycle /\ path = "/-/quit" THEN HttpQuit(method)
    ELSE HttpOther(path, method)

\* A listener hands a batch of events to the event queue, which sends it on
\* the events channel.  A listener works until its socket is closed; a send on
\* a closed channel panics.
ListenerEnqueue(k) ==
    /\ exit = "none"
    /\ listening[k] /\ sock[k] = "open"
    /\ enqueued < MaxBatches
    /\ IF eventsClosed
       THEN /\ sendAfterClose' = TRUE
            /\ exit' = "panic"
            /\ exitCause' = "send on closed channel"
            /\ UNCHANGED <<events, enqueued>>
       ELSE /\ Len(events) < EventQueueSize
            /\ events' = Append(events, enqueued + 1)
            /\ enqueued' = enqueued + 1
            /\ UNCHANGED <<sendAfterClose, exit, exitCause>>
    /\ UNCHANGED <<cfg, mainPc, deferred, sock, listening, eventsClosed, closeCount,
                   exporterUp, consumed, httpUp, relayUp, quitChan>>
    /\ UNCHANGED <<relayVars, lifecycleVars, cacheVars>>

\* exporter.Listen(events) takes the next batch from the channel and hands its
\* events to the aggregator.
ExporterListen ==
    /\ exit = "none"
    /\ exporterUp
    /\ events # <<>>
    /\ consumed' = Append(consumed, Head(events))
    /\ events' = Tail(events)
    /\ UNCHANGED <<cfg, mainPc, deferred, exit, exitCause, sock, listening, eventsClosed,
                   closeCount, enqueued, sendAfterClose, exporterUp, httpUp, relayUp,
                   quitChan>>
    /\ UNCHANGED <<relayVars, lifecycleVars, cacheVars>>

MainNext ==
    \/ MainGetCache
    \/ MainLoadConfig
    \/ MainCheckConfig
    \/ MainNewRelay
    \/ MainNeedListener
    \/ MainStartUDP
    \/ MainStartTCP
    \/ MainStartUnixgram
    \/ MainLanding
    \/ MainServe
    \/ MainSelect
    \/ MainRunDeferred
    \/ MainReturn
    \/ ServeHTTPFails
    \/ SighupReload
    \/ \E path \in Paths, method \in Methods : HttpRequest(path, method)
    \/ \E k \in Listeners : ListenerEnqueue(k)
    \/ ExporterListen

MainSpec == MainInit /\ [][MainNext]_vars

\* getCache is called with arguments and a constructor outcome of every kind.
CacheInit ==
    /\ RelayInit /\ packetLength = MaxPacketLength
    /\ cfg \in Configs /\ \A f \in DOMAIN cfg : ~cfg[f]
    /\ mainPc = "off"
    /\ deferred = <<>>
    /\ exit = "none"
    /\ exitCause = "none"
    /\ sock = [k \in Listeners |-> "none"]
    /\ listening = [k \in Listeners |-> FALSE]
    /\ events = <<>>
    /\ eventsClosed = FALSE
    /\ closeCount = 0
    /\ enqueued = 0
    /\ sendAfterClose = FALSE
    /\ exporterUp = FALSE
    /\ consumed = <<>>
    /\ httpUp = FALSE
    /\ relayUp = FALSE
    /\ quitChan = 0
    /\ LifecycleIdle
    /\ cacheSize \in CacheSizes
    /\ cacheType \in CacheTypes
    /\ ctor \in CtorResults
    /\ cacheRet = <<>>

\* The call getCache(cacheSize, cacheType, registerer).
CallGetCache ==
    /\ cacheRet = <<>>
    /\ cacheRet' = <<getCache(cacheSize, cacheType, ctor)>>
    /\ UNCHANGED <<cacheSize, cacheType, ctor>>
    /\ UNCHANGED <<cfg, mainPc, deferred, exit, exitCause, sock, listening, events,
                   eventsClosed, closeCount, enqueued, sendAfterClose, exporterUp,
                   consumed, httpUp, relayUp, quitChan, lifecycleVars>>
    /\ UNCHANGED relayVars

CacheNext == CallGetCache

CacheSpec == CacheInit /\ [][CacheNext]_vars

Next ==
    \/ \E c \in Callers, l \in Lines : RelayLine(c, l)
    \/ \E c \in Callers : RelayLineSend(c)
    \/ RelayTick
    \/ RelayRecv

Spec == Init /\ [][Next]_vars

(***************************************************************************)
(* The relay under fair scheduling: the ticker fires every second, Go's    *)
(* select serves a ready channel, and a caller whose channel send can      *)
(* proceed is run.  MaxLiveCalls bounds the calls of this specification.   *)
(***************************************************************************)
MaxLiveCalls == 2

FairNext ==
    \/ \E c \in Callers, l \in Lines : calls < MaxLiveCalls /\ RelayLine(c, l)
    \/ \E c \in Callers : RelayLineSend(c)
    \/ RelayTick
    \/ RelayRecv

FairSpec ==
    /\ Init
    /\ [][FairNext]_vars
    /\ WF_vars(RelayTick)
    /\ WF_vars(RelayRecv)
    /\ \A c \in Callers : WF_vars(RelayLineSend(c))

(***************************************************************************)
(* Properties.                                                             *)
(***************************************************************************)
\* The chunks of the accepted lines, in the order they were put on the channel.
AcceptedChunks == Field(accepted, "chunk")

\* The lines caller c put on the channel, in that order.
PutBy(c) == Field(SelectSeq(accepted, LAMBDA a : a.by = c), "line")

\* C1: every datagram the relay sends, and the buffer at every moment, holds
\* at most packetLength bytes, for every configured packetLength (0 included).
C1_PacketLengthBound ==
    /\ Len(buffer) <= packetLength
    /\ \A i \in 1..Len(sent) : Len(sent[i]) <= packetLength

\* C2: a RelayLine call with a non-empty line longer than packetLength - 1
\* discards the line (nothing is put on the channel or made pending) and adds
\* exactly one to the long-lines counter; a non-empty line of at most
\* packetLength - 1 bytes is not discarded.  (The empty line is never relayed
\* and counted nowhere; it is left out of the statement.)
C2_LongLinesDiscarded ==
    [][\A c \in Callers, l \in Lines \ {<<>>} :
          RelayLine(c, l) =>
             IF Len(l) > packetLength - 1
             THEN /\ longLinesTotal' = longLinesTotal + 1
                  /\ relayedLinesTotal' = relayedLinesTotal
                  /\ pc'[c] = "idle"
                  /\ UNCHANGED <<bufferChannel, buffer, pending, accepted, sent>>
             ELSE /\ longLinesTotal' = longLinesTotal
                  /\ pc'[c] = "sending"
                  /\ pending'[c].line = l]_vars

Framed(l, chunk) ==
    /\ IsPrefix(l, chunk)
    /\ chunk[Len(chunk)] = NL
    /\ Len(chunk) = Len(l) + (IF l[Len(l)] = NL THEN 0 ELSE 1)

\* C4: every accepted line is put on the channel as its own bytes, followed by
\* one newline exactly when it did not end in one; every chunk on the channel
\* ends in a newline and the channel holds the latest accepted chunks, unchanged.
C4_NewlineFraming ==
    /\ \A i \in 1..Len(accepted) : Framed(accepted[i].line, accepted[i].chunk)
    /\ \A c \in Callers : pc[c] = "sending" => Framed(pending[c].line, pending[c].chunk)
    /\ \A i \in 1..Len(bufferChannel) : bufferChannel[i][Len(bufferChannel[i])] = NL
    /\ Len(bufferChannel) <= Len(accepted)
    /\ bufferChannel = SubSeq(AcceptedChunks, Len(accepted) - Len(bufferChannel) + 1,
                              Len(accepted))

\* A line that ended in a newline and one that did not have both been accepted,
\* and the buffer holds exactly their two chunks.
C4_Witness ==
    /\ Len(accepted) = 2
    /\ \E i, j \in 1..2 : /\ accepted[i].chunk = accepted[i].line
                           /\ accepted[j].chunk # accepted[j].line
    /\ buffer = Flatten(AcceptedChunks)

\* What a datagram may be emitted by: the tick, or the arrival of a chunk that
\* does not fit into the buffer any more.
EmittedOnlyByTickOrFullBuffer ==
    sent' # sent =>
       \/ RelayTick
       \/ /\ RelayRecv
          /\ Len(Head(bufferChannel)) + Len(buffer) > packetLength

\* C5 as claimed: a tick on a non-empty buffer sends the whole buffer as one
\* datagram and leaves the buffer empty; a tick on an empty buffer sends
\* nothing; a datagram is emitted only by a tick or by a full buffer.
C5_TickAlwaysFlushes ==
    [][/\ RelayTick =>
            IF buffer # <<>>
            THEN sent' = Append(sent, buffer) /\ buffer' = <<>>
            ELSE sent' = sent /\ buffer' = <<>>
       /\ EmittedOnlyByTickOrFullBuffer]_vars

\* C5 as amended: a tick on a non-empty buffer makes one send of the whole
\* buffer; if the send succeeds exactly that one datagram is sent and the
\* buffer is empty afterwards, if it fails no datagram is sent and the loop
\* ends; a tick on an empty buffer sends nothing and leaves the buffer empty;
\* a datagram is emitted only by a tick or by a full buffer.
C5_TickFlushesOrFails ==
    [][/\ RelayTick =>
            IF buffer # <<>>
            THEN \/ sent' = Append(sent, buffer) /\ buffer' = <<>> /\ loop' = "running"
                 \/ sent' = sent /\ loop' = "exited"
            ELSE sent' = sent /\ buffer' = <<>> /\ loop' = "running"
       /\ EmittedOnlyByTickOrFullBuffer]_vars

\* A tick has flushed a buffer of two chunks: one datagram holds everything
\* accepted and the buffer is empty.
C5_Witness ==
    /\ loop = "running"
    /\ Len(accepted) >= 2
    /\ sent = <<Flatten(AcceptedChunks)>>
    /\ buffer = <<>>

\* C6: under fair scheduling every accepted line is eventually part of the
\* datagrams sent, unless a send fails (which ends the loop): a caller at the
\* channel send gets past it, and the first n accepted chunks are eventually
\* covered by the bytes sent, with no further call needed.
C6_EventuallySent ==
    /\ \A c \in Callers : (pc[c] = "sending") ~> (pc[c] = "idle" \/ loop = "exited")
    /\ \A n \in 1..MaxLiveCalls :
          (Len(accepted) >= n)
             ~> \/ loop = "exited"
                \/ /\ Len(accepted) >= n
                   /\ IsPrefix(Flatten(SubSeq(AcceptedChunks, 1, n)), Flatten(sent))

\* Every accepted chunk has been sent and nothing is left behind.
C6_Witness ==
    /\ loop = "running"
    /\ Len(accepted) = MaxLiveCalls
    /\ Flatten(sent) = Flatten(AcceptedChunks)
    /\ buffer = <<>> /\ bufferChannel = <<>>

\* C7: a failed send (the packet is counted, no datagram goes out) ends the
\* loop, and once the loop has ended no datagram is sent, no packet is counted
\* and no chunk is taken from the channel any more.
C7_SendErrorEndsLoop ==
    [][/\ (packetsTotal' = packetsTotal + 1 /\ sent' = sent) => loop' = "exited"
       /\ loop = "exited" =>
             /\ loop' = "exited"
             /\ sent' = sent
             /\ packetsTotal' = packetsTotal
             /\ buffer' = buffer
             /\ IsPrefix(bufferChannel, bufferChannel')]_vars

\* The loop has ended on a failed send while a chunk waits in the channel.
C7_Witness ==
    /\ loop = "exited"
    /\ packetsTotal = Len(sent) + 1
    /\ bufferChannel # <<>>

\* C8: a caller of RelayLine is never blocked for good: whenever a caller is
\* at the channel send, the channel has room or the loop is there to drain it.
C8_CallersNeverBlocked ==
    \A c \in Callers :
       pc[c] = "sending" => (Len(bufferChannel) < ChanCap \/ loop = "running")

\* C9: the events channel is closed at most once, and exactly once when main
\* has returned; no listener sends on it after its close; and when it is
\* closed every started listener has been stopped by the close of its socket.
C9_ListenersStoppedBeforeClose ==
    /\ closeCount <= 1
    /\ exit = "success" => closeCount = 1
    /\ ~sendAfterClose
    /\ eventsClosed => \A k \in Listeners : listening[k] => sock[k] = "closed"

\* C10: when the process ends after a shutdown, every batch that was put on
\* the events channel has been taken from it by exporter.Listen.
C10_NoBatchLostByShutdown ==
    exit = "success" => (events = <<>> /\ Len(consumed) = enqueued)

\* C14: the packets counter is the number of datagrams relayed to the target:
\* one more for each datagram sent, no more for a tick on an empty buffer or
\* for a send that failed.
C14_PacketsCounterCountsSent ==
    packetsTotal = Len(sent)

\* C16 as claimed: when the loop takes the chunk b from the channel and b fits
\* (buffer length + length of b <= packetLength) it is appended and nothing is
\* sent; when it does not fit the buffer, without b, is sent as one datagram
\* (nothing if it is empty) and the new buffer is exactly b.
C16_RecvAppendsOrFlushes ==
    [][RelayRecv =>
          LET b == Head(bufferChannel) IN
          IF Len(buffer) + Len(b) <= packetLength
          THEN buffer' = buffer \o b /\ sent' = sent
          ELSE /\ sent' = (IF buffer = <<>> THEN sent ELSE Append(sent, buffer))
               /\ buffer' = b]_vars

\* C16 as amended: as claimed when b fits; when b does not fit, the buffer,
\* without b, is handed to one send (none if it is empty): if the send
\* succeeds it goes out as one datagram and the new buffer is exactly b, if
\* it fails no datagram is sent and the loop ends.  A datagram sent for its
\* size together with the chunk that follows it exceeds packetLength.
C16_RecvAppendsOrFlushesOrFails ==
    [][RelayRecv =>
          LET b == Head(bufferChannel) IN
          IF Len(buffer) + Len(b) <= packetLength
          THEN buffer' = buffer \o b /\ sent' = sent /\ loop' = "running"
          ELSE \/ /\ sent' = (IF buffer = <<>> THEN sent ELSE Append(sent, buffer))
                  /\ buffer' = b
                  /\ loop' = "running"
                  /\ sent' # sent => Len(sent'[Len(sent')]) + Len(buffer') > packetLength
               \/ /\ buffer # <<>>
                  /\ sent' = sent
                  /\ loop' = "exited"]_vars

\* One chunk filled the buffer to exactly packetLength bytes; the next one did
\* not fit, so the full buffer went out and that chunk is the new buffer.
C16_Witness ==
    /\ loop = "running"
    /\ packetLength > 0
    /\ Len(accepted) = 3
    /\ sent = <<accepted[1].chunk \o accepted[2].chunk>>
    /\ Len(sent[1]) = packetLength
    /\ buffer = accepted[3].chunk

\* The number of callers at the channel send.
Sending == Cardinality({c \in Callers : pc[c] = "sending"})

\* The counters account for the calls: every line counted as relayed is on its
\* way to the channel or was put on it once, and the two counters together
\* count the non-empty lines.
Accounted ==
    /\ relayedLinesTotal = Len(accepted) + Sending
    /\ relayedLinesTotal + longLinesTotal = nonEmptyCalls

\* Whatever the line, a call (a step that counts a call; it counts a non-empty
\* call when its line is not empty) has one of RelayLine's three outcomes, a
\* line counted as relayed is put on the channel once, by the channel send
\* that ends its call, and the counters account for the calls.
OutcomesAccounted ==
    [][/\ calls' # calls =>
             IF nonEmptyCalls' = nonEmptyCalls
             THEN UNCHANGED <<longLinesTotal, relayedLinesTotal, pc, pending,
                              bufferChannel, accepted>>
             ELSE \/ /\ longLinesTotal' = longLinesTotal + 1
                     /\ UNCHANGED <<relayedLinesTotal, pc, pending, bufferChannel,
                                    accepted>>
                  \/ /\ relayedLinesTotal' = relayedLinesTotal + 1
                     /\ \E c \in Callers :
                           /\ pc[c] = "idle" /\ pc' = [pc EXCEPT ![c] = "sending"]
                           /\ pending'[c].line # <<>>
                           /\ relayedBy'[c] = Append(relayedBy[c], pending'[c].line)
                     /\ UNCHANGED <<longLinesTotal, bufferChannel, accepted>>
       /\ \A c \in Callers :
             (pc[c] = "sending" /\ pc'[c] = "idle") =>
                /\ Len(accepted') = Len(accepted) + 1
                /\ accepted'[Len(accepted')].line = pending[c].line
                /\ bufferChannel' = Append(bufferChannel, pending[c].chunk)
                /\ UNCHANGED <<longLinesTotal, relayedLinesTotal>>
       /\ Len(accepted') # Len(accepted) =>
             \E c \in Callers : pc[c] = "sending" /\ pc'[c] = "idle"
       /\ Accounted']_vars

\* C17: a RelayLine call has exactly one of three outcomes: an empty line
\* changes no counter and buffers nothing; a too long line (longer than
\* packetLength - 1) adds one to the long-lines counter only and buffers
\* nothing; any other line adds one to the relayed-lines counter only and is
\* on its way to the channel; and the counters account for the calls: the
\* relayed-lines counter is the number of lines put on the channel or about
\* to be, relayed-lines + long-lines the number of non-empty lines given.
C17_OneOutcomePerCall ==
    [][/\ \A c \in Callers, l \in Lines :
             (calls' # calls /\ RelayLine(c, l)) =>
                IF l = <<>>
                THEN UNCHANGED <<longLinesTotal, relayedLinesTotal, pc, pending,
                                 bufferChannel, accepted>>
                ELSE IF Len(l) > packetLength - 1
                THEN /\ longLinesTotal' = longLinesTotal + 1
                     /\ UNCHANGED <<relayedLinesTotal, pc, pending, bufferChannel,
                                    accepted>>
                ELSE /\ relayedLinesTotal' = relayedLinesTotal + 1
                     /\ pc'[c] = "sending" /\ pending'[c].line = l
                     /\ UNCHANGED <<longLinesTotal, bufferChannel, accepted>>
       /\ Accounted']_vars

\* The datagrams are, one after the other, runs of one or more whole chunks,
\* taken from the chunks in order with none left out.
RECURSIVE WholeChunks(_, _)
WholeChunks(datagrams, chunks) ==
    IF datagrams = <<>> THEN TRUE
    ELSE \E k \in 1..Len(chunks) :
            /\ Head(datagrams) = Flatten(SubSeq(chunks, 1, k))
            /\ WholeChunks(Tail(datagrams), SubSeq(chunks, k + 1, Len(chunks)))

\* C19: every datagram sent is the concatenation of one or more whole accepted
\* chunks, each an accepted line ending in a newline; the datagrams take the
\* chunks in the order of the channel, so no line is split across datagrams
\* and the bytes of two lines are never interleaved.
C19_DatagramsAreWholeLines ==
    /\ \A i \in 1..Len(accepted) :
          /\ IsPrefix(accepted[i].line, accepted[i].chunk)
          /\ accepted[i].chunk[Len(accepted[i].chunk)] = NL
    /\ WholeChunks(sent, AcceptedChunks)

\* Lines of both callers went out in two datagrams, one of them holding two
\* chunks.
C19_Witness ==
    /\ Len(sent) = 2
    /\ Len(accepted) = 3
    /\ Flatten(sent) = Flatten(AcceptedChunks)
    /\ \A c \in Callers : PutBy(c) # <<>>

\* C18: getCache called with cacheSize 0 returns no cache and no error whatever
\* the cache type; with another size, type "lru" or "random" returns the
\* cache its constructor made, of that type, and no error, or, when the
\* constructor returned an error, no cache and that error; any other type
\* returns no cache and the error "unsupported cache type".
C18_GetCacheSelects ==
    cacheRet # <<>> =>
       LET got == cacheRet[1] IN
       IF cacheSize = 0
       THEN got = [cache |-> Nil, err |-> Nil]
       ELSE IF cacheType \notin {"lru", "random"}
       THEN got = [cache |-> Nil, err |-> "unsupported cache type"]
       ELSE IF ctor.err
       THEN got = [cache |-> Nil, err |-> "constructor"]
       ELSE /\ got.err = Nil
            /\ got.cache \in {cacheType, Nil}
            /\ got.cache = cacheType <=> ctor.cache

\* getCache was called with size 0 and a cache type it does not support.
C18_Witness ==
    /\ cacheRet # <<>>
    /\ cacheSize = 0
    /\ cacheType = "fifo"

\* The errors of starting a listener's socket: resolving its address and
\* binding it (for Unixgram also finding the socket file already there).
BindFailures ==
    {"udp address", "udp bind", "tcp address", "tcp bind", "unixgram exists",
     "unixgram bind"}

\* C11: the process ends with a failure only for a bind failure of a listener
\* at start-up (or an unrecoverable socket error of a running listener); no
\* other error (cache set-up, mapping-config load, relay creation, read-buffer
\* setting, landing-page creation, HTTP serving, reload) ends it.
C11_OnlyListenerErrorsEndProcess ==
    exit = "failure" => exitCause \in BindFailures

\* C12: a reload trigger (a SIGHUP, or a PUT or POST reload request) never
\* ends the process; with a mapping file configured it calls the mapper once
\* and adds one to exactly one of the config-reload counters, without one it
\* does not call the mapper and changes neither counter; the counters change
\* by a trigger only, so success + failure is the number of triggers with a
\* configured file.
C12_ReloadsCounted ==
    [][/\ reloadTriggers' # reloadTriggers =>
             /\ reloadTriggers' = reloadTriggers + 1
             /\ UNCHANGED <<exit, exitCause, mainPc>>
             /\ IF cfg.mappingConfig
                THEN /\ mapperLoads' = mapperLoads + 1
                     /\ \/ configLoads' = [configLoads EXCEPT !.success = @ + 1]
                        \/ configLoads' = [configLoads EXCEPT !.failure = @ + 1]
                ELSE UNCHANGED <<mapperLoads, configLoads>>
       /\ reloadTriggers' = reloadTriggers => UNCHANGED <<mapperLoads, configLoads>>
       /\ configLoads'.success + configLoads'.failure
             = (IF cfg.mappingConfig THEN reloadTriggers' ELSE 0)]_vars

\* With a mapping file, one reload succeeded and one failed, and the process
\* is running.
C12_Witness ==
    /\ cfg.mappingConfig
    /\ configLoads = [success |-> 1, failure |-> 1]
    /\ reloadTriggers = 2
    /\ exit = "none" /\ mainPc = "select"

\* C13: an HTTP request never ends the process itself, and unless
\* web.enable-lifecycle is set, its path is the reload or the quit path and
\* its method is PUT or POST, it triggers no reload and puts nothing on
\* quitChan; main's select is ended by the quit message only with
\* web.enable-lifecycle set and a message on quitChan.
C13_LifecycleGuarded ==
    [][/\ httpRequests' # httpRequests =>
             /\ UNCHANGED <<exit, exitCause, mainPc, stopBy>>
             /\ \/ UNCHANGED <<configLoads, mapperLoads, reloadTriggers, quitChan>>
                \/ \A path \in Paths, method \in Methods :
                      HttpRequest(path, method) =>
                         /\ cfg.lifecycle
                         /\ path \in LifecyclePaths
                         /\ method \in {"PUT", "POST"}
       /\ quitChan' > quitChan => cfg.lifecycle /\ httpRequests' # httpRequests
       /\ stopBy' = "quit" => cfg.lifecycle
       /\ (stopBy' = "quit" /\ stopBy # "quit") => quitChan > 0]_vars

\* With the lifecycle handlers registered, requests for a lifecycle path with
\* another method were served: nothing was reloaded and the process runs.
C13_Witness ==
    /\ cfg.lifecycle /\ cfg.mappingConfig
    /\ refused = 1 /\ httpRequests = 1
    /\ reloadTriggers = 0 /\ quitChan = 0
    /\ exit = "none" /\ mainPc = "select"

\* C15: with check-config set main only sets up the cache, loads the mapping
\* configuration and returns: the relay is never created, no listener socket
\* is opened and the HTTP server is never started; the process ends with a
\* failure only for a cache or mapping-config error, and normally otherwise;
\* until the process has ended main always has a next step to take.
C15_CheckConfigOnlyChecks ==
    cfg.checkConfig =>
       /\ mainPc \in {"cache", "config", "check", "return", "exited"}
       /\ ~relayUp /\ ~httpUp /\ ~exporterUp
       /\ \A k \in Listeners : sock[k] = "none" /\ ~listening[k]
       /\ exit \in {"none", "failure", "success"}
       /\ exit = "failure" => exitCause \in {"cache", "mapping config"}
       /\ exit = "success" => exitCause = "return"
       /\ mainPc = "return" => exit = "none"
       /\ exit = "none" =>
             ENABLED (MainGetCache \/ MainLoadConfig \/ MainCheckConfig
                        \/ MainRunDeferred \/ MainReturn)

\* A check-config run without any listen address has ended normally.
C15_Witness ==
    /\ cfg.checkConfig
    /\ ~cfg.udp /\ ~cfg.tcp /\ ~cfg.unixgram
    /\ exit = "success"

====
